---- MODULE Spec2Model ----
(***************************************************************************)
(* oca-port: one invocation of the tool, from the construction of the      *)
(* settings (Settings.__post_init__, App.__init__, main) through App.run   *)
(* and MigrateAddon.run.                                                   *)
(*                                                                         *)
(* The collaborators whose code lives outside these three files (git,      *)
(* click prompts, the input storage, the user's cache, the port process)   *)
(* are modelled by what the calls in these files observe of them: the      *)
(* value a query returns is chosen when the query is made, a command       *)
(* either returns or raises, and every call is appended to `log`.          *)
(***************************************************************************)
EXTENDS Naturals, Sequences, FiniteSets, TLC

VARIABLES
    entry,      \* how the run was started: "main" (command line), "App" (App(...).run()),
                \* "Settings" (a caller that builds Settings itself and runs an app on it)
    args,       \* the keyword arguments Settings is constructed with
    settings,   \* the Settings object after __post_init__
    obs,        \* what the run has read of the repository and of the storage so far
    storage,    \* app.storage: [dirty, committed]
    repo,       \* the working repository and the patches directory:
                \* [head, mig, am, patches, am_order]
    pc,         \* position in main / App.run / MigrateAddon.run
    outcome,    \* how the invocation ended: "none" while running, "ok", or the exception
    errmsg,     \* the message of the exception that ended it
    ret,        \* the value MigrateAddon.run returned ("none" if it did not return)
    log         \* the calls made on the collaborators, in order

vars == <<entry, args, settings, obs, storage, repo, pc, outcome, errmsg, ret, log>>

YN(b) == IF b THEN "yes" ELSE "no"

Has(ev) == \E i \in 1..Len(log) : log[i] = ev

Index(ev) == IF Has(ev) THEN CHOOSE i \in 1..Len(log) : log[i] = ev ELSE 0

Count(ev) == Cardinality({i \in 1..Len(log) : log[i] = ev})

(***************************************************************************)
(* Settings                                                                *)
(***************************************************************************)

\* Outcomes of Branch(repo, name, default_remote=upstream): a Branch object with or
\* without a remote, a ValueError whose args[1] is a remote that is not configured,
\* or a ValueError whose args[1] is a configured remote.
BranchOutcomes == {"remote", "local", "no_remote", "other_error"}

Resolved(b) == b \in {"remote", "local"}

\* fork: "none" (not given), "known" (a remote of the repository), "unknown" (not one)
ForkValues == {"none", "known", "unknown"}

\* settings.output: the dataclass declares no such field, so the attribute exists only
\* when the caller attached it: "absent", "unset" (falsy) or "set"
OutputValues == {"absent", "unset", "set"}

NoSettings ==
    [from_branch |-> "raw", to_branch |-> "raw", fork |-> "none",
     non_interactive |-> FALSE, cli |-> FALSE, clear_cache |-> FALSE,
     output |-> "absent", constructed |-> FALSE]

\* The try block of __post_init__: from_branch is resolved first, to_branch only
\* when from_branch did not raise.
BranchTry(fres, tres) ==
    IF ~Resolved(fres)
    THEN [from_branch |-> "raw", to_branch |-> "raw", raised |-> fres]
    ELSE IF ~Resolved(tres)
         THEN [from_branch |-> fres, to_branch |-> "raw", raised |-> tres]
         ELSE [from_branch |-> fres, to_branch |-> tres, raised |-> "none"]

\* Settings.__post_init__ without the is_dirty check.
Settings__post_init__unchecked(a, d, fres, tres) ==
    LET bt == BranchTry(fres, tres)
        built == [from_branch |-> bt.from_branch, to_branch |-> bt.to_branch,
                  fork |-> a.fork,
                  non_interactive |-> IF ~a.cli THEN TRUE ELSE a.non_interactive,
                  cli |-> a.cli, clear_cache |-> a.clear_cache,
                  output |-> a.output, constructed |-> TRUE]
    IN  IF ~a.repo_path
        THEN [exc |-> "ValueError", msg |-> "repo_path", obj |-> NoSettings]
        ELSE IF a.fork = "unknown"
        THEN [exc |-> "ForkValueError", msg |-> "fork", obj |-> NoSettings]
        ELSE IF bt.raised = "no_remote"
        THEN [exc |-> "RemoteBranchValueError", msg |-> "upstream", obj |-> NoSettings]
        ELSE [exc |-> "none", msg |-> "", obj |-> built]

\* Settings.__post_init__ without the forcing of non_interactive outside the CLI.
Settings__post_init__unforced(a, d, fres, tres) ==
    LET bt == BranchTry(fres, tres)
        built == [from_branch |-> bt.from_branch, to_branch |-> bt.to_branch,
                  fork |-> a.fork,
                  non_interactive |-> a.non_interactive,
                  cli |-> a.cli, clear_cache |-> a.clear_cache,
                  output |-> a.output, constructed |-> TRUE]
    IN  IF ~a.repo_path
        THEN [exc |-> "ValueError", msg |-> "repo_path", obj |-> NoSettings]
        ELSE IF d
        THEN [exc |-> "ValueError", msg |-> "dirty", obj |-> NoSettings]
        ELSE IF a.fork = "unknown"
        THEN [exc |-> "ForkValueError", msg |-> "fork", obj |-> NoSettings]
        ELSE IF bt.raised = "no_remote"
        THEN [exc |-> "RemoteBranchValueError", msg |-> "upstream", obj |-> NoSettings]
        ELSE [exc |-> "none", msg |-> "", obj |-> built]

\* Settings.__post_init__(a) on a repository that is dirty or not (d), with the
\* outcomes of the two Branch constructions: the exception raised ("none" when
\* construction succeeds), its message, and the resulting object.
Settings__post_init__(a, d, fres, tres) ==
    LET bt == BranchTry(fres, tres)
        built == [from_branch |-> bt.from_branch, to_branch |-> bt.to_branch,
                  fork |-> a.fork,
                  non_interactive |-> IF ~a.cli THEN TRUE ELSE a.non_interactive,
                  cli |-> a.cli, clear_cache |-> a.clear_cache,
                  output |-> a.output, constructed |-> TRUE]
    IN  IF ~a.repo_path
        THEN [exc |-> "ValueError", msg |-> "repo_path", obj |-> NoSettings]
        ELSE IF d
        THEN [exc |-> "ValueError", msg |-> "dirty", obj |-> NoSettings]
        ELSE IF a.fork = "unknown"
        THEN [exc |-> "ForkValueError", msg |-> "fork", obj |-> NoSettings]
        ELSE IF bt.raised = "no_remote"
        THEN [exc |-> "RemoteBranchValueError", msg |-> "upstream", obj |-> NoSettings]
        ELSE [exc |-> "none", msg |-> "", obj |-> built]

\* The keyword arguments App.__init__ passes to Settings: cli is not among them, so
\* it keeps its default.
App__init__(a) == [a EXCEPT !.cli = FALSE, !.output = "absent"]

\* main's handling of an exception raised by App(...): the two remote errors become a
\* click error carrying prepare_remote_error_msg, any other ValueError is re-raised.
main_except_init(exc) ==
    IF exc \in {"ForkValueError", "RemoteBranchValueError"} THEN "ClickException" ELSE exc

\* The name of the repository on the upstream organization (settings.repo_name).
REPO_NAME == "server-tools"

\* prepare_remote_error_msg with its two arguments taken in the wrong order.
prepare_remote_error_msg_swapped(repo_name, remote) ==
    "No remote " \o repo_name \o " in the current repository. To add it: "
    \o "$ git remote add " \o repo_name
    \o " git@github.com:" \o repo_name \o "/" \o remote \o ".git"
    \o " Or: $ git remote add " \o repo_name
    \o " https://github.com/" \o repo_name \o "/" \o remote \o ".git"

\* prepare_remote_error_msg(repo_name, remote), colours and line breaks left out.
prepare_remote_error_msg(repo_name, remote) ==
    "No remote " \o remote \o " in the current repository. To add it: "
    \o "$ git remote add " \o remote
    \o " git@github.com:" \o remote \o "/" \o repo_name \o ".git"
    \o " Or: $ git remote add " \o remote
    \o " https://github.com/" \o remote \o "/" \o repo_name \o ".git"

\* The message of the exception main lets out of its try block around App(...), for
\* an exception exc whose args are (REPO_NAME, remote) when it is a remote error and
\* whose message is `remote` otherwise.
main_init_msg(exc, remote) ==
    IF exc = "ForkValueError"
    THEN prepare_remote_error_msg(REPO_NAME, remote)
         \o " You can change the GitHub organization with the --user-org option."
    ELSE IF exc = "RemoteBranchValueError"
    THEN prepare_remote_error_msg(REPO_NAME, remote)
    ELSE remote

\* main's handling of an exception raised by app.run(): a ValueError becomes a
\* click error, anything else propagates.
main_except_run(exc) ==
    IF exc = "ValueError" THEN "ClickException" ELSE exc

Raised(exc) == IF entry = "main" THEN main_except_run(exc) ELSE exc

(***************************************************************************)
(* Initial states: the arguments of the invocation.                        *)
(***************************************************************************)

ArgSets ==
    [repo_path : BOOLEAN, fork : ForkValues, non_interactive : BOOLEAN,
     cli : BOOLEAN, clear_cache : BOOLEAN, output : OutputValues]

Init ==
    /\ entry \in {"main", "App", "Settings"}
    /\ args \in ArgSets
    \* main passes os.getcwd() as repo_path; neither main nor App can pass cli or output
    /\ entry = "main" => args.repo_path
    /\ entry \in {"main", "App"} => (~args.cli /\ args.output = "absent")
    /\ settings = NoSettings
    /\ obs = [dirty |-> "unknown", from_exists |-> "unknown", to_exists |-> "unknown",
              blacklisted |-> "unknown", confirmed |-> "unknown",
              untracked |-> "unknown",
              mig_existed |-> "unknown", recreate |-> "unknown"]
    /\ storage = [dirty |-> FALSE, committed |-> FALSE]
    /\ repo = [head |-> "start", mig |-> "unknown", am |-> "none",
               patches |-> 0, am_order |-> "none"]
    /\ pc = "init"
    /\ outcome = "none"
    /\ errmsg = ""
    /\ ret = "none"
    /\ log = << >>

\* The run ends with exception exc (as main lets it out, when main is the caller).
Fail(exc, msg) ==
    /\ pc' = "done"
    /\ outcome' = Raised(exc)
    /\ errmsg' = msg

(***************************************************************************)
(* main / App.__init__                                                     *)
(***************************************************************************)

\* main's try block around App(...) (App.__init__ -> Settings, storage, cache), or the
\* caller's own construction of Settings.
Construct ==
    /\ pc = "init"
    /\ \E d \in BOOLEAN, fres \in BranchOutcomes, tres \in BranchOutcomes :
        LET a == IF entry = "Settings" THEN args ELSE App__init__(args)
            r == Settings__post_init__(a, d, fres, tres)
        IN  /\ obs' = [obs EXCEPT !.dirty = IF a.repo_path THEN YN(d) ELSE "unknown"]
            /\ settings' = r.obj
            /\ IF r.exc = "none"
               THEN /\ pc' = "run"
                    /\ UNCHANGED <<outcome, errmsg>>
               ELSE /\ pc' = "done"
                    /\ outcome' = IF entry = "main" THEN main_except_init(r.exc) ELSE r.exc
                    /\ errmsg' = IF entry = "main" THEN main_init_msg(r.exc, r.msg)
                                  ELSE r.msg
    /\ UNCHANGED <<entry, args, storage, repo, ret, log>>

(***************************************************************************)
(* App.run                                                                 *)
(***************************************************************************)

\* One turn of the loop of fetch_branches on a branch b ("from" or "to") whose
\* settings value is v, the fetch succeeding or not (ok): the events appended and the
\* exception raised. A branch left as a raw string has no attribute `remote`.
fetch_one(b, v, ok) ==
    IF v = "raw" THEN [events |-> << >>, exc |-> "AttributeError"]
    ELSE IF v = "local" THEN [events |-> << >>, exc |-> "none"]
    ELSE [events |-> << <<"fetch", b>> >>, exc |-> IF ok THEN "none" ELSE "GitCommandError"]

\* App.run, first statement: fetch_branches() over (from_branch, to_branch).
fetch_branches ==
    /\ pc = "run"
    /\ \E ok1 \in BOOLEAN, ok2 \in BOOLEAN :
        LET f == fetch_one("from", settings.from_branch, ok1)
            t == fetch_one("to", settings.to_branch, ok2)
        IN  IF f.exc # "none"
            THEN /\ log' = log \o f.events
                 /\ Fail(f.exc, "fetch")
            ELSE IF t.exc # "none"
            THEN /\ log' = log \o f.events \o t.events
                 /\ Fail(t.exc, "fetch")
            ELSE /\ log' = log \o f.events \o t.events
                 /\ pc' = "check_from"
                 /\ UNCHANGED <<outcome, errmsg>>
    /\ UNCHANGED <<entry, args, settings, obs, storage, repo, ret>>

\* _check_addon_exists with raise_exc ignored.
_check_addon_exists_quiet(present, raise_exc) ==
    IF ~present THEN "False" ELSE "True"

\* App._check_addon_exists(branch, raise_exc), the addon being a top-level directory
\* of the branch or not (present): "True", "False" or the exception.
_check_addon_exists(present, raise_exc) ==
    IF ~present
    THEN IF ~raise_exc THEN "False" ELSE "ValueError"
    ELSE "True"

\* App.run: check_addon_exists_from_branch(raise_exc=True)
check_addon_exists_from_branch ==
    /\ pc = "check_from"
    /\ \E present \in BOOLEAN :
        /\ obs' = [obs EXCEPT !.from_exists = YN(present)]
        /\ log' = Append(log, <<"check_addon", "from">>)
        /\ IF _check_addon_exists(present, TRUE) = "ValueError"
           THEN Fail("ValueError", "addon")
           ELSE /\ pc' = "run_port"
                /\ UNCHANGED <<outcome, errmsg>>
    /\ UNCHANGED <<entry, args, settings, storage, repo, ret>>

\* What the port process may do to branches and remotes under the arguments a it was
\* constructed with: it creates its own working branch only when create_branch is
\* set and pushes it only when push_branch is set (created, pushed: what it did).
PortEffects(a, created, pushed) ==
    (IF created /\ a.create_branch THEN << <<"port_branch", "create">> >> ELSE << >>)
    \o (IF pushed /\ a.push_branch THEN << <<"push", "port_branch">> >> ELSE << >>)

\* PortAddonPullRequest(self) in App.run_port: neither flag is passed.
run_port_args == [create_branch |-> TRUE, push_branch |-> TRUE]

\* run_port with its condition inverted.
run_port_next_inverted(found) == IF found THEN "migrate" ELSE "port"

\* What App.run does after run_port() found the addon on the target branch or not
\* (found): the port process was run and run_port returned True, or run_migrate is
\* called.
run_port_next(found) == IF found THEN "port" ELSE "migrate"

\* App.run_port, and the branch of App.run on its result. The port process either
\* returns or raises.
run_port ==
    /\ pc = "run_port"
    /\ \E present \in BOOLEAN, ok \in BOOLEAN, created \in BOOLEAN, pushed \in BOOLEAN :
        LET found == _check_addon_exists(present, FALSE) = "True"
        IN  /\ obs' = [obs EXCEPT !.to_exists = YN(present)]
            /\ ~found => (~created /\ ~pushed /\ ok)
            /\ IF run_port_next(found) = "port"
               THEN /\ log' = log \o << <<"check_addon", "to">>, <<"port", "App">> >>
                                 \o PortEffects(run_port_args, created, pushed)
                    /\ IF ok
                       THEN /\ pc' = "clear_cache"
                            /\ UNCHANGED <<outcome, errmsg>>
                       ELSE Fail("PortError", "port")
               ELSE /\ log' = log \o << <<"check_addon", "to">>, <<"migrate", "App">> >>
                    /\ pc' = "migrate"
                    /\ UNCHANGED <<outcome, errmsg>>
    /\ UNCHANGED <<entry, args, settings, storage, repo, ret>>

(***************************************************************************)
(* MigrateAddon.run                                                        *)
(***************************************************************************)

\* MigrateAddon.run returned v to App.run_migrate, which returns to App.run.
Return(v) ==
    /\ ret' = v
    /\ pc' = "clear_cache"
    /\ UNCHANGED <<outcome, errmsg>>

\* The non-interactive branch of MigrateAddon.run for settings st: the value
\* returned, or the exception raised.
non_interactive_result(st) ==
    IF st.output = "absent" THEN [exc |-> "AttributeError", ret |-> "none"]
    ELSE IF st.output = "set" THEN [exc |-> "none", ret |-> "rendered"]
    ELSE IF st.cli THEN [exc |-> "SystemExit100", ret |-> "none"]
    ELSE [exc |-> "none", ret |-> "True"]

\* The head of MigrateAddon.run without the blacklist test.
run_head_unlisted(blacklisted, st) ==
    IF st.non_interactive THEN "non_interactive" ELSE "confirm"

\* The head of MigrateAddon.run for settings st, the addon being blacklisted or not:
\* "blacklisted" (return False), "non_interactive" or "confirm" (go on to the prompt).
run_head(blacklisted, st) ==
    IF blacklisted THEN "blacklisted"
    ELSE IF st.non_interactive THEN "non_interactive"
    ELSE "confirm"

\* MigrateAddon.run up to the confirmation prompt.
MigrateAddon_run ==
    /\ pc = "migrate"
    /\ \E blacklisted \in BOOLEAN :
        LET h == run_head(blacklisted, settings)
            r == non_interactive_result(settings)
        IN  /\ obs' = [obs EXCEPT !.blacklisted = YN(blacklisted)]
            /\ IF h = "blacklisted"
               THEN /\ log' = Append(log, <<"storage", "is_addon_blacklisted">>)
                    /\ Return("False")
               ELSE IF h = "non_interactive"
               THEN IF r.exc # "none"
                    THEN /\ log' = Append(log, <<"storage", "is_addon_blacklisted">>)
                         /\ ret' = ret
                         /\ Fail(r.exc, "migrate")
                    ELSE /\ log' = log \o
                                (<< <<"storage", "is_addon_blacklisted">> >> \o
                                 IF r.ret = "rendered"
                                 THEN << <<"output", "render">> >> ELSE << >>)
                         /\ Return(r.ret)
               ELSE /\ log' = Append(log, <<"storage", "is_addon_blacklisted">>)
                    /\ pc' = "confirm"
                    /\ UNCHANGED <<outcome, errmsg, ret>>
    /\ UNCHANGED <<entry, args, settings, storage, repo>>

\* The configuration checks without the test of the fork option.
config_checks_no_fork(f, untracked) ==
    IF untracked THEN "ClickException" ELSE "none"

\* The checks of MigrateAddon.run between the prompt and the first git command, for
\* fork f and a repository with untracked files or not: the exception raised.
config_checks(f, untracked) ==
    IF f = "none" THEN "UsageError"
    ELSE IF untracked THEN "ClickException"
    ELSE "none"

\* MigrateAddon.run without the return on a declined confirmation.
goes_on_always(answer, dirty) == TRUE

\* Whether MigrateAddon.run goes on after the confirmation prompt was answered
\* (answer) and, when it was declined, storage.blacklist_addon(confirm=True) left
\* the storage dirty or not.
goes_on(answer, dirty) == answer \/ dirty

\* MigrateAddon.run: the confirmation prompt, the blacklisting proposed when it is
\* declined, and the configuration checks.
confirm_migrate ==
    /\ pc = "confirm"
    /\ \E answer \in BOOLEAN, bl \in BOOLEAN, untracked \in BOOLEAN :
        LET dirty == IF answer THEN storage.dirty ELSE bl
            asked == IF answer
                     THEN << <<"prompt", "migrate">> >>
                     ELSE << <<"prompt", "migrate">>, <<"storage", "blacklist_addon">> >>
            exc == config_checks(settings.fork, untracked)
        IN  /\ answer => ~bl
            /\ storage' = [storage EXCEPT !.dirty = dirty]
            /\ log' = log \o asked
            /\ IF ~goes_on(answer, dirty)
               THEN /\ Return("False")
                    /\ obs' = [obs EXCEPT !.confirmed = YN(answer)]
               ELSE /\ obs' = [obs EXCEPT !.confirmed = YN(answer),
                                          !.untracked =
                                   IF settings.fork = "none" THEN "unknown"
                                   ELSE YN(untracked)]
                    /\ ret' = ret
                    /\ IF exc # "none"
                       THEN Fail(exc, IF exc = "UsageError" THEN "fork_option" ELSE "untracked")
                       ELSE /\ pc' = "checkout_base"
                            /\ UNCHANGED <<outcome, errmsg>>
    /\ UNCHANGED <<entry, args, settings, repo>>

\* MigrateAddon._checkout_base_branch: the local target branch is checked out, created
\* from the target ref when it does not exist yet.
_checkout_base_branch ==
    /\ pc = "checkout_base"
    /\ \E exists \in BOOLEAN, ok \in BOOLEAN :
        /\ log' = Append(log, <<"checkout", IF exists THEN "to" ELSE "new_to">>)
        /\ IF ok
           THEN /\ repo' = [repo EXCEPT !.head = "to"]
                /\ pc' = "create_mig"
                /\ UNCHANGED <<outcome, errmsg>>
           ELSE /\ repo' = repo
                /\ Fail("GitCommandError", "checkout")
    /\ UNCHANGED <<entry, args, settings, obs, storage, ret>>

\* MigrateAddon.run with the patches generated and applied outside the test of
\* _create_mig_branch's result.
after_create_unguarded(create_branch, dirty) ==
    IF create_branch /\ dirty THEN "commit_blacklist" ELSE "generate"

\* Where MigrateAddon.run goes once _create_mig_branch returned create_branch, with
\* the storage dirty or not.
after_create(create_branch, dirty) ==
    IF create_branch
    THEN IF dirty THEN "commit_blacklist" ELSE "generate"
    ELSE "followup"

\* _create_mig_branch deleting an existing branch without looking at the answer.
deletes_head_unasked(exists, recreate) == exists

\* Whether _create_mig_branch deletes the head of the migration branch: it exists
\* and the user confirmed its recreation.
deletes_head(exists, recreate) == exists /\ recreate

\* The create_branch flag _create_mig_branch returns.
creates_branch(exists, recreate) == ~(exists /\ ~recreate)

\* MigrateAddon._create_mig_branch: an existing migration branch is deleted when the
\* user confirms its recreation, kept otherwise; the branch is created from the
\* target ref unless it was kept.
_create_mig_branch ==
    /\ pc = "create_mig"
    /\ \E exists \in BOOLEAN, recreate \in BOOLEAN, ok \in BOOLEAN :
        LET create_branch == creates_branch(exists, recreate)
            asked == IF exists THEN << <<"prompt", "recreate">> >> ELSE << >>
            deleted == IF deletes_head(exists, recreate)
                       THEN << <<"branch", "delete_mig">> >> ELSE << >>
            created == IF create_branch
                       THEN << <<"branch", "create_mig">> >> ELSE << >>
        IN  /\ ~exists => (~recreate)
            /\ ~create_branch => ok
            /\ obs' = [obs EXCEPT !.mig_existed = YN(exists),
                                  !.recreate = IF exists THEN YN(recreate) ELSE "unknown"]
            /\ log' = log \o asked \o deleted \o created
            /\ IF create_branch /\ ~ok
               THEN /\ repo' = [repo EXCEPT !.mig = "absent"]
                    /\ Fail("GitCommandError", "checkout")
               ELSE /\ repo' = IF create_branch
                               THEN [repo EXCEPT !.mig = "new", !.head = "mig"]
                               ELSE [repo EXCEPT !.mig = "old"]
                    /\ pc' = after_create(create_branch, storage.dirty)
                    /\ UNCHANGED <<outcome, errmsg>>
    /\ UNCHANGED <<entry, args, settings, storage, ret>>

\* MigrateAddon.run, "the addon shouldn't be ported (blacklisted)": the storage is
\* committed, the blacklist tips are printed and run returns False.
commit_blacklist ==
    /\ pc = "commit_blacklist"
    /\ storage' = [storage EXCEPT !.committed = TRUE]
    /\ log' = log \o << <<"storage", "commit">>, <<"tips", "blacklist">> >>
    /\ Return("False")
    /\ UNCHANGED <<entry, args, settings, obs, repo>>

\* The numbers of commits of the addon in target_ref..source_ref that are tried.
SmallPatches == 2

BigPatches == 10000

PatchCounts == (0..SmallPatches) \cup {BigPatches}

RECURSIVE Digits(_)
\* The decimal digits of n, as character codes.
Digits(n) == IF n < 10 THEN <<48 + n>> ELSE Append(Digits(n \div 10), 48 + (n % 10))

\* The start of the name git format-patch gives the i-th patch of the series
\* ("%04d-<subject>.patch"), as character codes: the number, padded with zeros to
\* four digits, and the dash. Two names differ before the subject.
PatchName(i) ==
    LET d == Digits(i)
        zeros == [k \in 1..(IF Len(d) < 4 THEN 4 - Len(d) ELSE 0) |-> 48]
    IN  zeros \o d \o <<45>>

\* a < b for two strings, as sorted() compares them: by the first character that
\* differs, a proper prefix coming first.
StrLess(a, b) ==
    LET m == IF Len(a) < Len(b) THEN Len(a) ELSE Len(b)
        diff == {k \in 1..m : a[k] # b[k]}
    IN  IF diff = {} THEN Len(a) < Len(b)
        ELSE LET k == CHOOSE x \in diff : \A y \in diff : x <= y
             IN  a[k] < b[k]

\* Whether sorted(os.listdir(patches_dir)) lists the n generated patches in the order
\* of their generation: the names being distinct, it does iff each name is less than
\* the next one.
sorted_in_generation_order(n) ==
    \A i \in 1..(n - 1) : StrLess(PatchName(i), PatchName(i + 1))

\* MigrateAddon._generate_patches: git format-patch over target_ref..source_ref,
\* restricted to the addon, writes one file per commit into patches_dir.
_generate_patches ==
    /\ pc = "generate"
    /\ \E ok \in BOOLEAN, n \in PatchCounts :
        /\ log' = Append(log, <<"git", "format_patch">>)
        /\ ~ok => n = 0
        /\ repo' = [repo EXCEPT !.patches = n]
        /\ IF ok
           THEN /\ pc' = "apply"
                /\ UNCHANGED <<outcome, errmsg>>
           ELSE Fail("GitCommandError", "format_patch")
    /\ UNCHANGED <<entry, args, settings, obs, storage, ret>>

\* MigrateAddon.run with the failure of git am ignored.
after_am_ignored(ok) == "pre_commit"

\* What MigrateAddon.run does after git am returned (ok) or raised.
after_am(ok) == IF ok THEN "pre_commit" ELSE "raise"

\* MigrateAddon._apply_patches: git am -3 --keep on the generated patches.
_apply_patches ==
    /\ pc = "apply"
    /\ \E ok \in BOOLEAN :
        /\ log' = Append(log, <<"git", "am_3way">>)
        /\ repo' = [repo EXCEPT !.am = IF ok THEN "applied" ELSE "partial",
                                !.am_order = IF sorted_in_generation_order(repo.patches)
                                             THEN "generation" ELSE "other"]
        /\ IF after_am(ok) = "pre_commit"
           THEN /\ pc' = "pre_commit"
                /\ UNCHANGED <<outcome, errmsg>>
           ELSE Fail("GitCommandError", "am")
    /\ UNCHANGED <<entry, args, settings, obs, storage, ret>>

\* MigrateAddon.run: g.run_pre_commit(repo, addon)
run_pre_commit ==
    /\ pc = "pre_commit"
    /\ \E ok \in BOOLEAN :
        /\ log' = Append(log, <<"git", "pre_commit">>)
        /\ IF ok
           THEN /\ pc' = "followup"
                /\ UNCHANGED <<outcome, errmsg>>
           ELSE Fail("CalledProcessError", "pre_commit")
    /\ UNCHANGED <<entry, args, settings, obs, storage, repo, ret>>

\* The follow-up port process constructed with the default flags.
followup_args_default == [create_branch |-> TRUE, push_branch |-> TRUE]

\* PortAddonPullRequest(self.settings, create_branch=False, push_branch=False)
followup_args == [create_branch |-> FALSE, push_branch |-> FALSE]

\* MigrateAddon.run: the follow-up port process, then the tips, then return True.
followup_port ==
    /\ pc = "followup"
    /\ \E ok \in BOOLEAN, created \in BOOLEAN, pushed \in BOOLEAN :
        LET effects == PortEffects(followup_args, created, pushed)
        IN  IF ok
            THEN /\ log' = log \o << <<"port", "followup">> >> \o effects
                              \o << <<"tips", "migrate">> >>
                 /\ Return("True")
            ELSE /\ log' = log \o << <<"port", "followup">> >> \o effects
                 /\ ret' = ret
                 /\ Fail("PortError", "port")
    /\ UNCHANGED <<entry, args, settings, obs, storage, repo>>

\* App.run, last statement: the cache is cleared when clear_cache is set.
clear_cache ==
    /\ pc = "clear_cache"
    /\ log' = IF settings.clear_cache THEN Append(log, <<"cache", "clear">>) ELSE log
    /\ pc' = "done"
    /\ outcome' = "ok"
    /\ UNCHANGED <<entry, args, settings, obs, storage, repo, errmsg, ret>>

Next ==
    \/ Construct
    \/ fetch_branches
    \/ check_addon_exists_from_branch
    \/ run_port
    \/ MigrateAddon_run
    \/ confirm_migrate
    \/ _checkout_base_branch
    \/ _create_mig_branch
    \/ commit_blacklist
    \/ _generate_patches
    \/ _apply_patches
    \/ run_pre_commit
    \/ followup_port
    \/ clear_cache

Spec == Init /\ [][Next]_vars

(***************************************************************************)
(* The exit status of the command line (main is a click command run by     *)
(* main() under __main__): 0 when main returns, the code of a SystemExit,  *)
(* click's codes for its own errors, 1 for an uncaught exception.          *)
(***************************************************************************)

\* "migration eligible", raise SystemExit(100)
EXIT_MIGRATE == 100

\* "ports available", as documented on Settings.non_interactive
EXIT_PORT == 110

ExitStatus ==
    IF outcome = "ok" THEN 0
    ELSE IF outcome = "SystemExit100" THEN EXIT_MIGRATE
    ELSE IF outcome = "UsageError" THEN 2
    ELSE 1

(***************************************************************************)
(* Vocabulary of the properties                                            *)
(***************************************************************************)

\* The calls that change the working repository: checkouts, branch creation and
\* deletion, patch generation and application, pre-commit.
Mutating(ev) == ev[1] \in {"checkout", "branch", "git"}

NoMutation == \A i \in 1..Len(log) : ~Mutating(log[i])

NoFetch == \A i \in 1..Len(log) : log[i][1] # "fetch"

NoPrompt == \A i \in 1..Len(log) : log[i][1] # "prompt"

NoBlacklistWrite ==
    /\ ~Has(<<"storage", "blacklist_addon">>)
    /\ ~Has(<<"storage", "commit">>)
    /\ ~storage.dirty
    /\ ~storage.committed

\* Every event ev of the log comes after an event first.
After(first, ev) ==
    \A i \in 1..Len(log) : log[i] = ev => \E j \in 1..(i - 1) : log[j] = first

\* The steps of a migration, in the order MigrateAddon.run makes them.
MigSteps ==
    << "checkout", "create_mig", "format_patch", "am_3way", "pre_commit",
       "followup", "tips" >>

\* The migration step an event of the log stands for ("" when it is none).
StepOf(ev) ==
    IF ev[1] = "checkout" THEN "checkout"
    ELSE IF ev = <<"branch", "create_mig">> THEN "create_mig"
    ELSE IF ev[1] = "git" THEN ev[2]
    ELSE IF ev = <<"port", "followup">> THEN "followup"
    ELSE IF ev = <<"tips", "migrate">> THEN "tips"
    ELSE ""

IsStep(ev) == StepOf(ev) # ""

StepsDone == [i \in 1..Len(SelectSeq(log, IsStep)) |-> StepOf(SelectSeq(log, IsStep)[i])]

IsPrefix(p, q) == Len(p) <= Len(q) /\ \A i \in 1..Len(p) : p[i] = q[i]

(***************************************************************************)
(* C1..C10                                                                 *)
(***************************************************************************)

\* C1: when the repository has uncommitted changes at the construction of Settings,
\* construction fails with a ValueError and nothing else happens in the invocation:
\* no fetch, no checkout, no branch creation or deletion, no patch, no blacklist
\* write, no call at all on a collaborator.
C1_DirtyRefused ==
    obs.dirty = "yes" =>
        /\ pc = "done"
        /\ outcome = "ValueError"
        /\ errmsg = "dirty"
        /\ ~settings.constructed
        /\ NoFetch /\ NoMutation /\ NoBlacklistWrite
        /\ log = << >>
        /\ repo.head = "start" /\ repo.am = "none"

C1_Witness == obs.dirty = "yes" /\ pc = "done" /\ entry = "main"

\* C2: once Settings is constructed, from_branch and to_branch are both Branch
\* objects; a branch resolution that raised always fails the construction.
C2_BranchesResolved ==
    settings.constructed =>
        (Resolved(settings.from_branch) /\ Resolved(settings.to_branch))

\* C3: a command-line run in non-interactive mode on an addon that is on the source
\* branch, not on the target branch and not blacklisted ends with exit status 100,
\* which is neither the status of "ports available" nor 0.
C3_ExitMigrationEligible ==
    (/\ entry = "main" /\ args.non_interactive /\ pc = "done"
     /\ obs.from_exists = "yes" /\ obs.to_exists = "no" /\ obs.blacklisted = "no")
    => (ExitStatus = EXIT_MIGRATE /\ EXIT_MIGRATE # EXIT_PORT /\ EXIT_MIGRATE # 0)

\* C4: in non-interactive mode MigrateAddon.run shows no prompt, makes no checkout,
\* branch creation or deletion, patch generation or application and no blacklist
\* write, and it ends with a defined outcome: a return value, a rendered output or
\* the exit status 100.
C4_NonInteractiveDefined ==
    (settings.non_interactive /\ obs.blacklisted # "unknown") =>
        /\ NoPrompt /\ NoMutation /\ NoBlacklistWrite
        /\ \/ ret \in {"False", "True", "rendered"}
           \/ outcome = "SystemExit100"

\* C5: a command-line run without --non-interactive is interactive: when the addon is
\* missing on the target branch and not blacklisted, the user is asked to confirm the
\* migration, and no migration step is made before that prompt.
C5_CommandLineInteractive ==
    (/\ entry = "main" /\ ~args.non_interactive
     /\ obs.to_exists = "no" /\ obs.blacklisted = "no")
    => /\ Has(<<"prompt", "migrate">>)
       /\ \A i \in 1..Len(log) :
            IsStep(log[i]) => \E j \in 1..(i - 1) : log[j] = <<"prompt", "migrate">>

\* C6: App.run takes exactly one of the two paths, chosen by the existence of the
\* addon on the target branch alone: the port process when it exists, and then
\* nothing of the migration; the migration when it does not, and then run_port does
\* not run the port process.
C6_OnePath ==
    /\ obs.to_exists = "yes" =>
        /\ Count(<<"port", "App">>) = 1
        /\ ~Has(<<"migrate", "App">>)
        /\ obs.blacklisted = "unknown" /\ ret = "none"
        /\ NoPrompt /\ NoMutation /\ ~Has(<<"port", "followup">>)
    /\ obs.to_exists = "no" =>
        /\ Count(<<"migrate", "App">>) = 1
        /\ ~Has(<<"port", "App">>)
    /\ obs.to_exists = "unknown" =>
        (~Has(<<"port", "App">>) /\ ~Has(<<"migrate", "App">>))

C6_Witness ==
    /\ obs.to_exists = "no" /\ Has(<<"migrate", "App">>)
    /\ Has(<<"port", "followup">>) /\ pc = "done" /\ outcome = "ok"

\* C7: the blacklist is the first thing MigrateAddon.run reads, and a blacklisted
\* addon makes it return False at once, in interactive and in non-interactive mode:
\* no prompt, no exit status 100, no checkout, branch creation, patch or follow-up
\* port.
C7_BlacklistFirst ==
    /\ \A i \in 1..Len(log) :
        log[i] = <<"migrate", "App">> =>
            (i < Len(log) => log[i + 1] = <<"storage", "is_addon_blacklisted">>)
    /\ obs.blacklisted = "yes" =>
        /\ ret = "False"
        /\ outcome \in {"none", "ok"}
        /\ NoPrompt /\ NoMutation
        /\ ~Has(<<"port", "followup">>) /\ ~Has(<<"tips", "migrate">>)
        /\ ~Has(<<"output", "render">>)

C7_Witness ==
    /\ obs.blacklisted = "yes" /\ pc = "done"
    /\ settings.constructed /\ ~settings.non_interactive

\* How a fork that is no remote of the repository is reported: the arguments of the
\* ForkValueError, or the click error main makes of them.
ForkErrorReport ==
    IF entry = "main" THEN main_init_msg("ForkValueError", "fork") ELSE "fork"

\* C8: a missing fork option or untracked files end the migration before the first
\* change to the repository, and a fork that is no remote of the repository fails
\* the construction of Settings before anything is fetched.
C8_ConfigErrorsFirst ==
    /\ outcome = "UsageError" =>
        (settings.fork = "none" /\ errmsg = "fork_option" /\ NoMutation)
    /\ errmsg = "untracked" => (outcome = "ClickException" /\ NoMutation)
    /\ (obs.confirmed # "unknown" /\ settings.fork = "none") =>
        (NoMutation /\ (pc = "done" => (outcome = "UsageError" \/ ret = "False")))
    /\ (\E i \in 1..Len(log) : Mutating(log[i])) =>
        (settings.fork = "known" /\ obs.untracked = "no")
    /\ errmsg = ForkErrorReport =>
        (/\ outcome = IF entry = "main" THEN "ClickException" ELSE "ForkValueError"
         /\ NoFetch /\ NoMutation /\ log = << >>)
    /\ (pc # "init" /\ args.fork = "unknown" /\ obs.dirty = "no") =>
        (/\ pc = "done" /\ errmsg = ForkErrorReport /\ ~settings.constructed
         /\ outcome = IF entry = "main" THEN "ClickException" ELSE "ForkValueError")

C8_Witness ==
    /\ outcome = "UsageError" /\ Has(<<"prompt", "migrate">>)
    /\ obs.confirmed = "yes"

\* C9: in a confirmed migration whose migration branch is created, the steps are made
\* in the order checkout of the target branch, creation of the migration branch,
\* format-patch, am -3, pre-commit, follow-up port, tips, none being skipped when
\* run returns True; and patches are only applied on a migration branch created
\* from the target ref in the same run.
C9_MigrationOrder ==
    /\ (obs.confirmed = "yes" /\ repo.mig = "new") =>
        /\ IsPrefix(StepsDone, MigSteps)
        /\ ret = "True" => StepsDone = MigSteps
        /\ After(<<"prompt", "migrate">>, <<"branch", "create_mig">>)
    /\ Has(<<"git", "am_3way">>) =>
        /\ repo.head = "mig" /\ repo.mig = "new"
        /\ After(<<"branch", "create_mig">>, <<"git", "am_3way">>)
        /\ After(<<"git", "format_patch">>, <<"git", "am_3way">>)
        /\ Count(<<"git", "am_3way">>) = 1
        /\ Count(<<"branch", "create_mig">>) = 1

C9_Witness ==
    /\ obs.confirmed = "yes" /\ repo.mig = "new" /\ ret = "True"
    /\ obs.mig_existed = "yes" /\ pc = "done"

\* C10: when git am fails the migration ends there with the error of git am:
\* pre-commit, the follow-up port and the tips are not run, run does not return,
\* the invocation does not end well, and nothing is rolled back: the migration
\* branch stays checked out, partially applied, git am being the last call made.
C10_FailedApplyAborts ==
    repo.am = "partial" =>
        /\ pc = "done"
        /\ outcome = "GitCommandError" /\ errmsg = "am"
        /\ ret = "none"
        /\ ~Has(<<"git", "pre_commit">>)
        /\ ~Has(<<"port", "followup">>)
        /\ ~Has(<<"tips", "migrate">>)
        /\ repo.head = "mig" /\ repo.mig = "new"
        /\ log[Len(log)] = <<"git", "am_3way">>

C10_Witness == repo.am = "partial" /\ pc = "done"

(***************************************************************************)
(* C11..C20                                                                *)
(***************************************************************************)

NoPush == \A i \in 1..Len(log) : log[i][1] # "push"

C12_CacheCleared ==
    /\ (/\ pc = "done" /\ settings.constructed /\ settings.clear_cache
        /\ obs.to_exists # "unknown" /\ outcome \in {"ok", "SystemExit100"})
       => (Has(<<"cache", "clear">>) /\ log[Len(log)] = <<"cache", "clear">>)
    /\ Has(<<"cache", "clear">>) =>
        (settings.clear_cache /\ log[Len(log)] = <<"cache", "clear">>
         /\ Count(<<"cache", "clear">>) = 1)

\* C13: when the construction of Settings raises ForkValueError or
\* RemoteBranchValueError on the command line, main ends with one click error whose
\* message names the missing remote and the command that adds it, and App.run is
\* never called: nothing is fetched, ported, migrated or cleared.
C13_MissingRemoteReported ==
    (entry = "main" /\ pc = "done" /\ ~settings.constructed /\ obs.dirty = "no") =>
        /\ outcome = "ClickException"
        /\ log = << >> /\ ret = "none"
        /\ args.fork = "unknown" =>
            errmsg = "No remote fork in the current repository. To add it: "
                     \o "$ git remote add fork git@github.com:fork/server-tools.git"
                     \o " Or: $ git remote add fork https://github.com/fork/server-tools.git"
                     \o " You can change the GitHub organization with the --user-org option."
        /\ args.fork # "unknown" =>
            errmsg = "No remote upstream in the current repository. To add it: "
                     \o "$ git remote add upstream git@github.com:upstream/server-tools.git"
                     \o " Or: $ git remote add upstream https://github.com/upstream/server-tools.git"

C13_Witness ==
    /\ entry = "main" /\ pc = "done" /\ ~settings.constructed /\ obs.dirty = "no"
    /\ args.fork # "unknown"

\* C14: the existence of the addon on the source branch is the first thing App.run
\* checks after fetching; when the addon is not there a ValueError ends the run and
\* neither the check on the target branch, the port process nor the migration is
\* started.
C14_SourceCheckedFirst ==
    /\ \A i \in 1..Len(log) :
        log[i] = <<"check_addon", "from">> => \A j \in 1..(i - 1) : log[j][1] = "fetch"
    /\ After(<<"check_addon", "from">>, <<"check_addon", "to">>)
    /\ obs.to_exists # "unknown" => obs.from_exists = "yes"
    /\ obs.from_exists = "no" =>
        /\ pc = "done"
        /\ outcome = Raised("ValueError") /\ errmsg = "addon"
        /\ log[Len(log)] = <<"check_addon", "from">>
        /\ obs.to_exists = "unknown"
        /\ ~Has(<<"check_addon", "to">>)
        /\ ~Has(<<"port", "App">>) /\ ~Has(<<"migrate", "App">>)
        /\ ret = "none"

C14_Witness == obs.from_exists = "no" /\ pc = "done" /\ entry = "App"

\* C15: when the user declines the confirmation and the storage is not dirty
\* afterwards, MigrateAddon.run returns False and that is all: no blacklist record is
\* committed, no checkout, branch creation or deletion, patch or follow-up port
\* happens.
C15_DeclinedSkipped ==
    (obs.confirmed = "no" /\ ~storage.dirty) =>
        /\ ret = "False"
        /\ pc \in {"clear_cache", "done"} /\ outcome \in {"none", "ok"}
        /\ ~storage.committed /\ ~Has(<<"storage", "commit">>)
        /\ NoMutation
        /\ ~Has(<<"prompt", "recreate">>)
        /\ ~Has(<<"port", "followup">>) /\ ~Has(<<"tips", "migrate">>)
        /\ ~Has(<<"tips", "blacklist">>)

C15_Witness == obs.confirmed = "no" /\ ~storage.dirty /\ pc = "done"

\* C16: the head of an existing migration branch is deleted only after the user
\* confirmed its recreation; when the user declines, the branch is neither deleted
\* nor created again, and no patch is generated or applied and pre-commit is not run;
\* a migration branch that does not exist is created without a prompt.
C16_DeleteOnlyConfirmed ==
    /\ Has(<<"branch", "delete_mig">>) =>
        (/\ obs.mig_existed = "yes" /\ obs.recreate = "yes"
         /\ After(<<"prompt", "recreate">>, <<"branch", "delete_mig">>))
    /\ obs.recreate = "no" =>
        /\ repo.mig = "old"
        /\ ~Has(<<"branch", "delete_mig">>) /\ ~Has(<<"branch", "create_mig">>)
        /\ ~Has(<<"git", "format_patch">>) /\ ~Has(<<"git", "am_3way">>)
        /\ ~Has(<<"git", "pre_commit">>)
        /\ pc \in {"followup", "clear_cache", "done"}
    /\ obs.mig_existed = "no" =>
        (~Has(<<"prompt", "recreate">>) /\ Has(<<"branch", "create_mig">>))

C16_Witness == obs.recreate = "no" /\ pc = "done" /\ outcome = "ok"

\* C17: the patches are passed to one git am call in the order of their generation,
\* whatever their number: the sorted listing of the patches directory is the
\* generation order.
C17_ReplayOldestFirst ==
    repo.am = "applied" =>
        (repo.am_order = "generation" /\ Count(<<"git", "am_3way">>) = 1)

\* C18: a Settings constructed with cli false is non-interactive whatever was
\* requested, and a run on it never reaches a prompt and never raises
\* SystemExit(100).
C18_NonInteractiveForced ==
    (settings.constructed /\ ~settings.cli) =>
        /\ settings.non_interactive
        /\ NoPrompt
        /\ obs.confirmed = "unknown"
        /\ outcome # "SystemExit100"
        /\ pc \notin {"confirm", "checkout_base", "create_mig"}

C18_Witness ==
    /\ settings.constructed /\ ~settings.cli /\ ~args.non_interactive
    /\ entry = "App" /\ obs.blacklisted = "no" /\ pc = "done"

\* C19: once the user has declined the confirmation the addon is not migrated in
\* that run, whatever is answered afterwards: no patch is generated or applied, the
\* follow-up port process is not run and the migration tips are not printed.
C19_DeclinedNeverMigrated ==
    obs.confirmed = "no" =>
        /\ ~Has(<<"git", "format_patch">>) /\ ~Has(<<"git", "am_3way">>)
        /\ ~Has(<<"port", "followup">>)
        /\ ~Has(<<"tips", "migrate">>)

\* C20: whenever the follow-up port process is run in the migration flow, the branch
\* checked out is the migration branch, never the local target branch.
C20_FollowUpOnMigBranch ==
    Has(<<"port", "followup">>) => (repo.head = "mig" /\ repo.head # "to")

(***************************************************************************)
(* C21                                                                     *)
(***************************************************************************)

\* C21: whenever MigrateAddon.run returns after the user confirmed the blacklisting
\* (the storage is dirty), the storage has been committed before the return, the
\* migration branch being newly created, recreated, or kept.
C21_BlacklistCommitted ==
    (ret # "none" /\ storage.dirty) =>
        (storage.committed /\ Has(<<"storage", "commit">>))
====
